---------------------------- MODULE Spec2Model ----------------------------
(***************************************************************************)
(* Model of ingest_logger.SlackHandler: producers emit() formatted log     *)
(* entries into message_queue, a daemon worker thread flushes the queue    *)
(* every send_interval, flush() groups the entries into batches under      *)
(* max_message_length and posts each batch with chat_postMessage, and      *)
(* close() stops the worker, joins it and flushes once more.               *)
(*                                                                         *)
(* A formatted entry is a non-empty sequence of characters; the entry with *)
(* emit number i consists of copies of the i-th letter of Alphabet, so an  *)
(* entry carries both its length and its identity.  The newline that       *)
(* "\n".join puts between entries is the character NL.                     *)
(***************************************************************************)
EXTENDS Integers, Sequences, FiniteSets, TLC

\* ------------------------------------------------------------------ bounds
\* The cap of the source is 35000 characters; flush only compares sums of
\* entry lengths with it, so the model scales the cap and the lengths down.
MaxCap == 4
\* Number of entries that emit() puts on the queue in one run.
MaxEmit == 3
\* Number of calls of close() in one run.
MaxClose == 2
\* Number of calls of ContextFilter.filter on one record.
MaxFilterCalls == 2

\* ------------------------------------------------------- program constants
max_message_length == MaxCap

Alphabet == <<"a", "b", "c", "d", "e", "f", "g", "h">>
NL == "\n"

\* Lengths of formatted entries: short ones, one that alone reaches the cap
\* and one that alone exceeds it.
Lens == {1, 2, max_message_length, max_message_length + 1}

\* The records handed to emit(): their logger name and the length of the
\* entry that self.format makes of them.
Records == [name : {"ingest"}, len : Lens] \cup [name : {"bagit"}, len : {1}]

\* Execution contexts that can run flush(): the worker thread and the
\* thread that calls close().
Ctx == {"worker", "closer"}

\* Outcomes of client.chat_postMessage: it returns, it raises SlackApiError
\* (the API rejected the post), or it raises another exception (the network
\* call itself failed: URLError, timeout, connection reset).
Outcomes == {"ok", "SlackApiError", "NetworkError"}

VARIABLES
    message_queue,  \* self.message_queue: the entries not yet dequeued
    running,        \* self.running
    worker,         \* position of the worker thread in _send_logs_periodically
    closer,         \* position of the caller of close()
    fl,             \* per context: the frame of its call of flush()
    closed,         \* super().close() has run
    closeCalls,     \* number of calls of close() so far
    emitted,        \* history: the entries put on the queue, in order
    posted,         \* history: the calls of chat_postMessage, in order
    closeCase       \* history: how the first call of close() came about:
                    \*   "none"   close() not called, no periodic flush started
                    \*   "fired"  a periodic flush started before the call
                    \*   "prompt" close() was called before any periodic flush
                    \*            had started, and nothing was emitted since
                    \*   "late"   as "prompt", but an entry was emitted since

\* ContextFilter and the record it is applied to (used by SpecTag only).
VARIABLES
    tag             \* self:   the space and entrypoint of the ContextFilter
                    \* record: the space and entrypoint attributes of the record
                    \* ret:    what the last call of filter() returned
                    \* calls:  number of calls of filter(record) so far
                    \* before: the attributes of the record before the first call
                    \* once:   the attributes of the record after the first call

vars == <<message_queue, running, worker, closer, fl, closed, closeCalls,
          emitted, posted, closeCase, tag>>

\* ------------------------------------------------------------ pure helpers
\* self.format(record) for the n-th entry put on the queue, of length l.
Format(n, l) == [k \in 1..l |-> Alphabet[n]]

\* The emit number of an entry.
IdOf(m) == CHOOSE i \in 1..Len(Alphabet) : Alphabet[i] = m[1]

\* "\n".join(messages)
RECURSIVE Join(_)
Join(messages) ==
    IF messages = <<>> THEN <<>>
    ELSE IF Len(messages) = 1 THEN messages[1]
    ELSE messages[1] \o <<NL>> \o Join(Tail(messages))

\* current_length + len(message) + 1 > self.max_message_length
WouldExceedNoNewline(current_length, message) ==
    current_length + Len(message) > max_message_length
WouldExceed(current_length, message) ==
    current_length + Len(message) + 1 > max_message_length

\* current_length = len(message)
LengthAfterSplitZero(message) == 0
LengthAfterSplit(message) == Len(message)

\* current_length += len(message) + 1
LengthAfterAppend(current_length, message) == current_length + Len(message) + 1

\* messages.append(message)
Appended(messages, message) == Append(messages, message)

\* if messages:
HasFinalBatchAlways(messages) == TRUE
HasFinalBatchNever(messages) == FALSE
HasFinalBatch(messages) == messages # <<>>

\* The frame of a context that is not inside flush().
NoFrame ==
    [pc |-> "idle", messages |-> <<>>, current_length |-> 0, message |-> <<>>,
     drained |-> <<>>, texts |-> <<>>, first |-> TRUE]

\* The frame of a call of flush() that an exception has unwound.
Aborted == [NoFrame EXCEPT !.pc = "aborted"]

\* ---------------------------------------------------------- ContextFilter
\* Values of config_space and entrypoint, and of the attributes a record may
\* carry before it is filtered ("unset": the record has no such attribute).
Spaces == {"DEV", "PROD"}
Entrypoints == {"NULL", "ingest.py"}
AttrValues == {"unset"} \cup Spaces \cup Entrypoints

\* ContextFilter.__init__(space, entrypoint)
ContextFilter(space, entrypoint) == [space |-> space, entrypoint |-> entrypoint]

\* ContextFilter.filter(record): the record after the call and the value
\* returned.
filterSetDefault(self, record) ==
    [record |-> [entrypoint |-> IF record.entrypoint = "unset"
                                THEN self.entrypoint ELSE record.entrypoint,
                 space |-> IF record.space = "unset"
                           THEN self.space ELSE record.space],
     ret |-> TRUE]
filter(self, record) ==
    [record |-> [record EXCEPT !.entrypoint = self.entrypoint,
                               !.space = self.space],
     ret |-> TRUE]

\* No filter call has been made: the filter IngestLogger builds by default
\* and a record without the two attributes.
NoTag ==
    [self |-> ContextFilter("DEV", "NULL"),
     record |-> [space |-> "unset", entrypoint |-> "unset"],
     ret |-> "none", calls |-> 0,
     before |-> [space |-> "unset", entrypoint |-> "unset"],
     once |-> [space |-> "unset", entrypoint |-> "unset"]]

\* ------------------------------------------------------------------- Init
\* SlackHandler.__init__
InitHandler ==
    /\ message_queue = <<>>
    /\ running = TRUE
    /\ worker = "while"
    /\ closer = "idle"
    /\ fl = [c \in Ctx |-> NoFrame]
    /\ closed = FALSE
    /\ closeCalls = 0
    /\ emitted = <<>>
    /\ posted = <<>>
    /\ closeCase = "none"

Init ==
    /\ InitHandler
    /\ tag = NoTag

\* A filter built from any space and entrypoint, and a record holding any
\* values in the two attributes.
InitTag ==
    /\ InitHandler
    /\ \E s \in Spaces, e \in Entrypoints, rs \in AttrValues, re \in AttrValues :
          tag = [self |-> ContextFilter(s, e),
                 record |-> [space |-> rs, entrypoint |-> re],
                 ret |-> "none", calls |-> 0,
                 before |-> [space |-> rs, entrypoint |-> re],
                 once |-> [space |-> "unset", entrypoint |-> "unset"]]

\* One call of filter(record) on the record.
ApplyFilter ==
    /\ tag.calls < MaxFilterCalls
    /\ LET r == filter(tag.self, tag.record) IN
       tag' = [tag EXCEPT !.record = r.record,
                          !.ret = r.ret,
                          !.calls = @ + 1,
                          !.once = IF tag.calls = 0 THEN r.record ELSE @]
    /\ UNCHANGED <<message_queue, running, worker, closer, fl, closed,
                   closeCalls, emitted, posted, closeCase>>

NextTag == ApplyFilter

SpecTag == InitTag /\ [][NextTag]_vars

\* self.message_queue = Queue(): the queue has no maxsize, so put() never
\* waits for room.
PutBlocksWhenHolding(queue) == queue # <<>>
PutBlocks(queue) == FALSE

\* ------------------------------------------------------------------- emit
\* SlackHandler.emit: a record of the "bagit" logger is ignored, any other
\* record is formatted and put on the queue.
Emit(record) ==
    IF record.name # "bagit"
    THEN LET log_entry == Format(Len(emitted) + 1, record.len) IN
         /\ Len(emitted) < MaxEmit
         /\ ~PutBlocks(message_queue)
         /\ message_queue' = Append(message_queue, log_entry)
         /\ emitted' = Append(emitted, log_entry)
         /\ closeCase' = IF closeCase = "prompt" THEN "late" ELSE closeCase
         /\ UNCHANGED <<running, worker, closer, fl, closed, closeCalls,
                        posted, tag>>
    ELSE UNCHANGED vars

\* ------------------------------------------------------------------ flush
\* flush(), lines 117-118: the locals of a fresh call.
FlushBegin(c) ==
    [pc |-> "test", messages |-> <<>>, current_length |-> 0, message |-> <<>>,
     drained |-> <<>>, texts |-> <<>>, first |-> TRUE]

\* What the caller of flush() does when flush() returns.
Resume(c) ==
    /\ worker' = IF c = "worker" THEN "while" ELSE worker
    /\ closer' = IF c = "closer" THEN "super" ELSE closer

\* What happens to the caller when an exception leaves flush(): the worker
\* thread ends with the exception, close() raises it to its caller.
Unwind(c) ==
    /\ worker' = IF c = "worker" THEN "crashed" ELSE worker
    /\ closer' = IF c = "closer" THEN "raised" ELSE closer

\* while not self.message_queue.empty(), and after the loop: if messages.
FlushTest(c) ==
    /\ fl[c].pc = "test"
    /\ IF message_queue # <<>>
       THEN /\ fl' = [fl EXCEPT ![c].pc = "get"]
            /\ UNCHANGED <<worker, closer>>
       ELSE IF HasFinalBatch(fl[c].messages)
       THEN /\ fl' = [fl EXCEPT ![c].pc = "final"]
            /\ UNCHANGED <<worker, closer>>
       ELSE /\ fl' = [fl EXCEPT ![c].pc = "returned"]
            /\ Resume(c)
    /\ UNCHANGED <<tag, message_queue, running, closed, closeCalls,
                   emitted, posted, closeCase>>

\* message = self.message_queue.get() (blocks while the queue is empty),
\* followed by the test of line 121 and, when the entry fits, the append.
FlushGet(c) ==
    /\ fl[c].pc = "get"
    /\ message_queue # <<>>
    /\ LET message == Head(message_queue) IN
       /\ message_queue' = Tail(message_queue)
       /\ IF WouldExceed(fl[c].current_length, message)
          THEN fl' = [fl EXCEPT ![c].pc = "split",
                                ![c].message = message,
                                ![c].drained = Append(@, message)]
          ELSE fl' = [fl EXCEPT ![c].pc = "test",
                                ![c].messages = Appended(@, message),
                                ![c].current_length = LengthAfterAppend(@, message),
                                ![c].drained = Append(@, message)]
    /\ UNCHANGED <<tag, running, worker, closer, closed, closeCalls,
                   emitted, posted, closeCase>>

\* _send_messages_to_slack(messages): the text is joined and chat_postMessage
\* is called with it.  The call is recorded whatever its outcome; the line
\* printed for a SlackApiError changes nothing in the handler.
Post(c, o) ==
    posted' = Append(posted, [batch |-> fl[c].messages,
                              text |-> Join(fl[c].messages),
                              by |-> c, first |-> fl[c].first])

\* Lines 108-109: the handler of a failed post only prints; it puts none of
\* the entries of the batch back on the queue.
RequeuedOnFailure(messages, o) == IF o = "ok" THEN <<>> ELSE messages
Requeued(messages, o) == <<>>

\* except SlackApiError: which outcomes _send_messages_to_slack absorbs.
Caught(o) == o \in {"ok", "SlackApiError"}

\* Line 122: the batch that the dequeued entry does not fit into is sent,
\* then lines 123-124 start the next batch with that entry.
FlushSendSplit(c, o) ==
    /\ fl[c].pc = "split"
    /\ Post(c, o)
    /\ IF Caught(o)
       THEN /\ fl' = [fl EXCEPT ![c].pc = "test",
                                ![c].messages = <<fl[c].message>>,
                                ![c].current_length = LengthAfterSplit(fl[c].message),
                                ![c].message = <<>>,
                                ![c].texts = Append(@, Join(fl[c].messages)),
                                ![c].first = FALSE]
            /\ UNCHANGED <<worker, closer>>
       ELSE /\ fl' = [fl EXCEPT ![c] = Aborted]
            /\ Unwind(c)
    /\ message_queue' = Requeued(fl[c].messages, o) \o message_queue
    /\ UNCHANGED <<tag, running, closed, closeCalls, emitted, closeCase>>

\* Line 130: the last batch is sent and flush() returns.
FlushSendFinal(c, o) ==
    /\ fl[c].pc = "final"
    /\ Post(c, o)
    /\ IF Caught(o)
       THEN /\ fl' = [fl EXCEPT ![c].pc = "returned",
                                ![c].messages = <<>>,
                                ![c].texts = Append(@, Join(fl[c].messages))]
            /\ Resume(c)
       ELSE /\ fl' = [fl EXCEPT ![c] = Aborted]
            /\ Unwind(c)
    /\ message_queue' = Requeued(fl[c].messages, o) \o message_queue
    /\ UNCHANGED <<tag, running, closed, closeCalls, emitted, closeCase>>

\* ------------------------------------------------- _send_logs_periodically
\* while self.running
LoopTestAlways == TRUE
LoopTest == running

\* The loop test; the frame of the flush() that has returned is gone.
WorkerTest ==
    /\ worker = "while"
    /\ worker' = IF LoopTest THEN "sleep" ELSE "exited"
    /\ fl' = [fl EXCEPT !["worker"] = NoFrame]
    /\ UNCHANGED <<tag, message_queue, running, closer, closed, closeCalls,
                   emitted, posted, closeCase>>

\* time.sleep(self.send_interval) ends and self.flush() is entered.
WorkerWake ==
    /\ worker = "sleep"
    /\ worker' = "flush"
    /\ fl' = [fl EXCEPT !["worker"] = FlushBegin("worker")]
    /\ closeCase' = IF closeCase = "none" THEN "fired" ELSE closeCase
    /\ UNCHANGED <<tag, message_queue, running, closer, closed, closeCalls,
                   emitted, posted>>

\* ------------------------------------------------------------------ close
\* self.running = False
CloseCall ==
    /\ closer \in {"idle", "raised"}
    /\ closeCalls < MaxClose
    /\ closeCalls' = closeCalls + 1
    /\ running' = FALSE
    /\ closer' = "join"
    /\ closeCase' = IF closeCase = "none" THEN "prompt" ELSE closeCase
    /\ UNCHANGED <<tag, message_queue, worker, fl, closed, emitted,
                   posted>>

\* Thread.join returns once the worker thread has ended.
WorkerEndedNoWait == TRUE
WorkerEnded == worker \in {"exited", "crashed"}

\* self.worker_thread.join(), then self.flush() is entered.
CloseJoin ==
    /\ closer = "join"
    /\ WorkerEnded
    /\ closer' = "flush"
    /\ fl' = [fl EXCEPT !["closer"] = FlushBegin("closer")]
    /\ UNCHANGED <<tag, message_queue, running, worker, closed, closeCalls,
                   emitted, posted, closeCase>>

\* super().close(), and close() returns; the frame of its flush() is gone.
CloseSuper ==
    /\ closer = "super"
    /\ closed' = TRUE
    /\ closer' = "idle"
    /\ fl' = [fl EXCEPT !["closer"] = NoFrame]
    /\ UNCHANGED <<tag, message_queue, running, worker, closeCalls,
                   emitted, posted, closeCase>>

\* ------------------------------------------------------------------- Next
Next ==
    \/ \E record \in Records : Emit(record)
    \/ WorkerTest
    \/ WorkerWake
    \/ \E c \in Ctx : FlushTest(c)
    \/ \E c \in Ctx : FlushGet(c)
    \/ \E c \in Ctx, o \in Outcomes : FlushSendSplit(c, o)
    \/ \E c \in Ctx, o \in Outcomes : FlushSendFinal(c, o)
    \/ CloseCall
    \/ CloseJoin
    \/ CloseSuper

Spec == Init /\ [][Next]_vars

\* The steps of the worker thread, and the steps of a thread that is inside
\* close().  Both are threads the interpreter keeps scheduling: a sleep
\* ends, a call of chat_postMessage comes back (with a result or with an
\* exception), join() returns once the worker has ended.  Whether and when
\* emit() and close() are called is up to the application.
WorkerStep ==
    \/ WorkerTest
    \/ WorkerWake
    \/ FlushTest("worker")
    \/ FlushGet("worker")
    \/ \E o \in Outcomes : FlushSendSplit("worker", o)
    \/ \E o \in Outcomes : FlushSendFinal("worker", o)

CloserStep ==
    \/ CloseJoin
    \/ CloseSuper
    \/ FlushTest("closer")
    \/ FlushGet("closer")
    \/ \E o \in Outcomes : FlushSendSplit("closer", o)
    \/ \E o \in Outcomes : FlushSendFinal("closer", o)

SpecFair == Spec /\ WF_vars(WorkerStep) /\ WF_vars(CloserStep)

\* ------------------------------------------------------- derived histories
\* The entries of a sequence of batches, batch by batch.
RECURSIVE Flatten(_)
Flatten(batches) ==
    IF batches = <<>> THEN <<>> ELSE Head(batches) \o Flatten(Tail(batches))

\* The entries handed to chat_postMessage so far, in the order handed.
Handed == Flatten([i \in 1..Len(posted) |-> posted[i].batch])

\* sum(len(m) + 1 for m in batch)
RECURSIVE SumLen1(_)
SumLen1(batch) ==
    IF batch = <<>> THEN 0 ELSE Len(Head(batch)) + 1 + SumLen1(Tail(batch))

Range(seq) == {seq[i] : i \in 1..Len(seq)}

\* The entries of seq that are members of set, in the order of seq.
RECURSIVE Restrict(_, _)
Restrict(seq, set) ==
    IF seq = <<>> THEN <<>>
    ELSE IF Head(seq) \in set THEN <<Head(seq)>> \o Restrict(Tail(seq), set)
    ELSE Restrict(Tail(seq), set)

\* The entries a context holds in the locals of its call of flush().
Held(c) == Range(fl[c].messages) \cup
           (IF fl[c].message = <<>> THEN {} ELSE {fl[c].message})

\* ----------------------------------------------------------------- claims
\* C1: shutdown drains fully.  When close() has returned, after being called
\* before any periodic flush had fired and with nothing emitted since the
\* call, every emitted entry has been handed to chat_postMessage exactly once
\* and in emit order, and the queue is empty.
C1_ShutdownDrainsFully ==
    (closed /\ closer = "idle" /\ closeCase = "prompt") =>
        /\ Handed = emitted
        /\ message_queue = <<>>

\* C2: order preservation.  Over all periodic flushes and the final flushes
\* of close(), an entry is never handed to chat_postMessage after an entry
\* that was enqueued later.
C2_OrderPreservation ==
    \A i, j \in 1..Len(Handed) :
        i < j => IdOf(Handed[i]) < IdOf(Handed[j])

\* All entries of a full run were handed over, some by a periodic flush and
\* some by the final flush of close().
C2_Witness ==
    /\ Len(Handed) = MaxEmit
    /\ \E i, j \in 1..Len(posted) :
          /\ posted[i].by = "worker" /\ posted[i].batch # <<>>
          /\ posted[j].by = "closer" /\ posted[j].batch # <<>>

\* C3: no loss on enqueue during a drain.  Every enqueued entry is still in
\* the queue, held by a flush in progress, or was handed to chat_postMessage.
C3_NoLossDuringDrain ==
    \A m \in Range(emitted) :
        \/ m \in Range(message_queue)
        \/ \E c \in Ctx : m \in Held(c)
        \/ m \in Range(Handed)

\* C4: failure isolation.  No failure of chat_postMessage leaves
\* _send_messages_to_slack: no call of flush() is cut short by it and the
\* worker thread is not ended by it.
C4_FailureIsolation ==
    /\ worker # "crashed"
    /\ \A c \in Ctx : fl[c].pc # "aborted"

\* C5: cap respecting, data-model form.  Every posted batch of two or more
\* entries has sum(len(m) + 1) <= max_message_length.
C5_CapDataModel ==
    \A i \in 1..Len(posted) :
        Len(posted[i].batch) >= 2 =>
            SumLen1(posted[i].batch) <= max_message_length

\* C5 as amended: a posted batch of two or more entries has
\* sum(len(m) + 1) <= max_message_length when it is the first batch of its
\* flush, and sum(len(m) + 1) <= max_message_length + 1 when it was started
\* after a split.
C5_CapDataModelAmended ==
    \A i \in 1..Len(posted) :
        Len(posted[i].batch) >= 2 =>
            SumLen1(posted[i].batch) <=
                (IF posted[i].first THEN max_message_length
                                    ELSE max_message_length + 1)

\* A batch started after a split was posted with two entries whose
\* sum(len(m) + 1) is one above the cap.
C5_Witness ==
    \E i \in 1..Len(posted) :
        /\ ~posted[i].first
        /\ Len(posted[i].batch) >= 2
        /\ SumLen1(posted[i].batch) = max_message_length + 1

\* C6: cap respecting, posted-text form.  The text posted for a batch of two
\* or more entries is at most max_message_length long.
C6_CapPostedText ==
    \A i \in 1..Len(posted) :
        Len(posted[i].batch) >= 2 => Len(posted[i].text) <= max_message_length

\* A text of two entries that fills the cap exactly was posted, and a text
\* of one entry that exceeds the cap.
C6_Witness ==
    /\ \E i \in 1..Len(posted) :
          /\ Len(posted[i].batch) >= 2
          /\ Len(posted[i].text) = max_message_length
    /\ \E i \in 1..Len(posted) :
          /\ Len(posted[i].batch) = 1
          /\ Len(posted[i].text) > max_message_length

\* C7: round trip of batching.  When flush() returns, the texts it posted,
\* joined with newlines, are the entries it dequeued, joined with newlines;
\* no entry gives no post and a single entry gives a single post.
C7_RoundTrip ==
    \A c \in Ctx :
        fl[c].pc = "returned" =>
            /\ Join(fl[c].texts) = Join(fl[c].drained)
            /\ (fl[c].drained = <<>> => fl[c].texts = <<>>)
            /\ (Len(fl[c].drained) = 1 => Len(fl[c].texts) = 1)

C9_EmptyFlushNoCall ==
    \A c \in Ctx :
        fl[c].drained = <<>> =>
            /\ fl[c].pc \notin {"split", "final"}
            /\ fl[c].texts = <<>>

\* The final flush of close() returned without dequeuing, after a periodic
\* flush had handed over every entry.
C9_Witness ==
    /\ fl["closer"].pc = "returned" /\ fl["closer"].drained = <<>>
    /\ emitted # <<>> /\ message_queue = <<>> /\ Handed = emitted

\* C10: shutdown errors are absorbed.  No failure of chat_postMessage in the
\* final flush ends close() before super().close() has run.
C10_ShutdownErrorsAbsorbed ==
    closer # "raised"

\* A context is inside flush().
InFlush(c) == fl[c].pc \in {"test", "get", "split", "final"}

\* A context is inside a call of chat_postMessage.
InPost(c) == fl[c].pc \in {"split", "final"}

\* C11: producers never wait on delivery.  In every reachable state, also
\* while a flush or a call of chat_postMessage is in progress and while
\* close() is in progress, emit() of a record can complete (as long as the
\* run has emits left), and a step of emit() makes no call of
\* chat_postMessage and leaves the worker and the caller of close() alone,
\* so no delivery failure reaches its caller.
C11_EmitNeverWaits ==
    /\ [](Len(emitted) < MaxEmit =>
             \A record \in Records : ENABLED Emit(record))
    /\ [][emitted' # emitted =>
             /\ posted' = posted
             /\ worker' = worker /\ closer' = closer /\ fl' = fl]_vars

\* An entry was put on the queue while the worker was inside the call of
\* chat_postMessage for its last batch and close() was waiting in join().
C11_Witness ==
    /\ fl["worker"].pc = "final"
    /\ closer = "join"
    /\ message_queue # <<>>

\* C12: close() is idempotent.  Once close() has returned, a further call
\* of close() performs no flush: no entry is handed to chat_postMessage any
\* more, even if entries were emitted after the first call.
C12_CloseIdempotent ==
    [][closed => Handed' = Handed]_vars

\* C13: no retry, at most once.  No entry is handed to chat_postMessage
\* twice, and an entry that was handed over (successfully or not) is neither
\* on the queue again nor held by a flush for a later post.
C13_AtMostOnce ==
    /\ \A i, j \in 1..Len(Handed) : i # j => Handed[i] # Handed[j]
    /\ \A m \in Range(Handed) :
          /\ m \notin Range(message_queue)
          /\ \A c \in Ctx : m \notin Held(c)

\* The post of a batch failed with an uncaught error in the worker, and the
\* final flush of close() then posted a later entry and returned.
C13_Witness ==
    /\ worker = "crashed"
    /\ fl["closer"].pc = "returned"
    /\ \E i, j \in 1..Len(posted) :
          /\ i < j
          /\ posted[i].by = "worker" /\ posted[i].batch # <<>>
          /\ \A k \in (i + 1)..Len(posted) : posted[k].by = "closer"
          /\ posted[j].batch # <<>>

\* C14 (under SpecTag): tagging idempotence.  Every call of filter accepts
\* the record and leaves record.space and record.entrypoint at the values
\* the filter was built with, whatever the record held before; after a
\* second call the record holds what it held after the first.
C14_TaggingIdempotent ==
    tag.calls >= 1 =>
        /\ tag.ret = TRUE
        /\ tag.record.space = tag.self.space
        /\ tag.record.entrypoint = tag.self.entrypoint
        /\ tag.record = tag.once

\* The filter was applied twice to a record that came with other values in
\* both attributes.
C14_Witness ==
    /\ tag.calls = 2
    /\ tag.before.space \notin {"unset", tag.self.space}
    /\ tag.before.entrypoint \notin {"unset", tag.self.entrypoint}

\* C15: every call of chat_postMessage is made in the worker thread, none
\* in the thread that calls close().
C15_WorkerContextOnly ==
    /\ \A i \in 1..Len(posted) : posted[i].by = "worker"
    /\ ~InPost("closer")

\* C15 as amended: a call of chat_postMessage is made either by the worker
\* thread inside its periodic flush or by the thread that calls close()
\* inside the final flush, and by the latter only once the worker thread has
\* ended; a step of emit() makes no call.
C15_NotifierContexts ==
    /\ [](/\ InPost("worker") => worker = "flush"
          /\ InPost("closer") =>
                closer = "flush" /\ worker \in {"exited", "crashed"}
          /\ \A i \in 1..Len(posted) :
                posted[i].by = "closer" => worker \in {"exited", "crashed"})
    /\ [][emitted' # emitted => posted' = posted /\ fl' = fl]_vars

\* The worker posted a batch in a periodic flush, and the thread that called
\* close() is inside chat_postMessage for the last batch of the final flush.
C15_Witness ==
    /\ fl["closer"].pc = "final"
    /\ closer = "flush"
    /\ \E i \in 1..Len(posted) :
          posted[i].by = "worker" /\ posted[i].batch # <<>>

\* C16 (under SpecFair): cooperative stop.  Setting running to false leaves
\* the worker where it is, with the flush and the call of chat_postMessage it
\* is in; once running is false the loop test never starts another
\* sleep/flush cycle, so the worker finishes at most the cycle it is in and
\* then stays ended; and every call of close() that waits in join() comes to
\* its end: it returns, unless a call of chat_postMessage in its final flush
\* raised, and then it raises that exception.
C16_CooperativeStop ==
    /\ [][running /\ ~running' => worker' = worker /\ fl' = fl]_vars
    /\ [][~running => ~running']_vars
    /\ [][~running /\ worker = "while" => worker' \in {"while", "exited"}]_vars
    /\ [][(worker = "exited" \/ worker = "crashed") => worker' = worker]_vars
    /\ [][closer # "raised" /\ closer' = "raised" => InPost("closer")]_vars
    /\ (closer = "join") ~> (closer \in {"idle", "raised"})

\* close() was called before any periodic flush had started; the worker
\* still ran the cycle it was in, posted a batch, left its loop, and close()
\* has returned.
C16_Witness ==
    /\ closeCase = "prompt"
    /\ worker = "exited"
    /\ closed /\ closer = "idle"
    /\ \E i \in 1..Len(posted) :
          posted[i].by = "worker" /\ posted[i].batch # <<>>

\* The entries context c has handed to chat_postMessage so far.
HandedBy(c) ==
    Flatten([i \in 1..Len(posted) |->
                 IF posted[i].by = c THEN posted[i].batch ELSE <<>>])

\* C17 (under SpecFair): periodic delivery.  While close() has not been
\* called, every entry that emit() has put on the queue is eventually handed
\* to chat_postMessage by a periodic flush of the worker, whatever the
\* outcomes of the earlier calls of chat_postMessage.
C17_PeriodicDelivery ==
    \A i \in 1..MaxEmit :
        (Len(emitted) >= i) ~>
            \/ closeCalls > 0
            \/ Len(emitted) >= i /\ emitted[i] \in Range(HandedBy("worker"))

\* C18: the final flush of close() starts only after the worker thread has
\* ended, so at most one thread is inside flush(): the worker is never
\* inside flush() while close() is past its join().
C18_NoOverlap ==
    /\ ~(InFlush("worker") /\ InFlush("closer"))
    /\ closer \in {"flush", "super"} =>
           /\ worker = "exited" \/ worker = "crashed"
           /\ ~InFlush("worker")
    /\ InFlush("closer") => closer = "flush"
    /\ InFlush("worker") => worker = "flush"

\* close() is inside its final flush with entries still queued, after the
\* worker has handed a batch in a periodic flush and left its loop.
C18_Witness ==
    /\ fl["closer"].pc = "test"
    /\ message_queue # <<>>
    /\ worker = "exited"
    /\ HandedBy("worker") # <<>>

\* C19: flush never calls _send_messages_to_slack with an empty list of
\* messages, neither at the split of line 122 nor at the end (line 130).
C19_NoEmptyBatch ==
    /\ \A i \in 1..Len(posted) : posted[i].batch # <<>>
    /\ \A c \in Ctx : InPost(c) => fl[c].messages # <<>>

\* C20: message_queue.get() of line 120 never waits.  Whenever a thread is
\* about to call get(), having seen the queue non-empty at line 119, the
\* queue is still non-empty.
C20_GetNeverWaits ==
    \A c \in Ctx : fl[c].pc = "get" => message_queue # <<>>

\* close() is about to call get() in its final flush while the queue holds
\* an entry that was emitted after close() had been called.
C20_Witness ==
    /\ fl["closer"].pc = "get"
    /\ closeCase = "late"
    /\ Len(message_queue) >= 2

=============================================================================
